---------------------------- MODULE Spec2Model ----------------------------
(***************************************************************************)
(* hugo-calendar: one run of the command line program, from parseArgs to   *)
(* the last printed display row.                                           *)
(*                                                                         *)
(* Text is a sequence of one-character strings, so that formatting         *)
(* (time.Format, Sprintf "%2d") and parsing (time.Parse, HasPrefix,        *)
(* Contains) are computed character by character.  A time.Time at day      *)
(* precision is a record [year, month, day] normalised the way time.Date   *)
(* normalises its arguments.                                               *)
(***************************************************************************)
EXTENDS Integers, Sequences, FiniteSets, Bags, TLC

VARIABLES
    args,               \* os.Args[1:]
    files,              \* the entries below <project>/content/posts (a bag)
    dirExists,          \* whether os.Stat finds the posts directory
    tty,                \* what the TIOCGWINSZ ioctl answers
    today,              \* time.Now() at day precision
    pc,                 \* position of main
    config,             \* *Config returned by parseArgs
    err,                \* the fatal error main exits with ("none" if none)
    notice,             \* the last non-fatal message printed
    pending,            \* entries filepath.Walk has not visited yet
    postCounts,         \* map[string]int of parsePostsAndCount
    months,             \* []time.Time of renderCalendars
    calendarsPerRow,    \* renderCalendarGrid
    i,                  \* loop index of renderCalendarGrid
    out                 \* the display rows printed so far

vars == <<args, files, dirExists, tty, today, pc, config, err, notice,
          pending, postCounts, months, calendarsPerRow, i, out>>

inputs == <<args, files, dirExists, tty, today>>

-----------------------------------------------------------------------------
(* Text *)

Digit == <<"0", "1", "2", "3", "4", "5", "6", "7", "8", "9">>

IsDigit(c) == \E k \in 1..10 : Digit[k] = c

DigitValue(c) == (CHOOSE k \in 1..10 : Digit[k] = c) - 1

\* strconv: the decimal digits of n >= 0, most significant first
RECURSIVE Itoa(_)
Itoa(n) == IF n < 10 THEN <<Digit[n + 1]>>
           ELSE Itoa(n \div 10) \o <<Digit[(n % 10) + 1]>>

RECURSIVE Repeat(_, _)
Repeat(c, n) == IF n <= 0 THEN <<>> ELSE <<c>> \o Repeat(c, n - 1)

\* a number field of time.Format: zero padded to at least w digits
ZeroPad(n, w) == Repeat("0", w - Len(Itoa(n))) \o Itoa(n)

\* fmt "%2d": right justified in a field of at least two columns
Sprintf2d(n) == Repeat(" ", 2 - Len(Itoa(n))) \o Itoa(n)

\* the value of a run of digits
RECURSIVE Atoi(_)
Atoi(s) == IF s = <<>> THEN 0
           ELSE 10 * Atoi(SubSeq(s, 1, Len(s) - 1)) + DigitValue(s[Len(s)])

AllDigits(s) == \A k \in 1..Len(s) : IsDigit(s[k])

\* strings.HasPrefix(s, "-")
HasDashPrefix(s) == Len(s) >= 1 /\ s[1] = "-"

\* strings.Contains(s, sub): scan for the first index where sub matches
RECURSIVE IndexFrom(_, _, _)
IndexFrom(s, sub, k) ==
    IF k + Len(sub) - 1 > Len(s) THEN -1
    ELSE IF SubSeq(s, k, k + Len(sub) - 1) = sub THEN k
    ELSE IndexFrom(s, sub, k + 1)

Contains(s, sub) == IndexFrom(s, sub, 1) >= 1

\* strings.Join(parts, sep)
RECURSIVE Join(_, _)
Join(parts, sep) ==
    IF parts = <<>> THEN <<>>
    ELSE IF Len(parts) = 1 THEN parts[1]
    ELSE parts[1] \o sep \o Join(Tail(parts), sep)

-----------------------------------------------------------------------------
(* package time, at day precision *)

IsLeap(year) == year % 4 = 0 /\ (year % 100 # 0 \/ year % 400 = 0)

\* daysBefore[m]: days of a non-leap year before month m + 1
DaysBefore == <<0, 31, 59, 90, 120, 151, 181, 212, 243, 273, 304, 334, 365>>

\* days of the year before month m (1..13), in year
DaysBeforeIn(year, m) ==
    DaysBefore[m] + (IF IsLeap(year) /\ m >= 3 THEN 1 ELSE 0)

\* days from 0001-01-01 to the first day of year
DaysBeforeYear(year) ==
    LET y == year - 1
    IN  365 * y + (y \div 4) - (y \div 100) + (y \div 400)

\* time.Date(year, month, day): month and day may lie outside their ranges
DateToDays(year, month, day) ==
    LET m0 == month - 1
        y  == year + (m0 \div 12)
        m  == (m0 % 12) + 1
    IN  DaysBeforeYear(y) + DaysBeforeIn(y, m) + day - 1

\* Time.Date(): the civil date of a day count, by 400/100/4/1 year cycles
DaysToDate(n) ==
    LET n400 == n \div 146097
        r1   == n % 146097
        c100 == r1 \div 36524
        n100 == IF c100 = 4 THEN 3 ELSE c100
        r2   == r1 - 36524 * n100
        n4   == r2 \div 1461
        r3   == r2 % 1461
        c1   == r3 \div 365
        n1   == IF c1 = 4 THEN 3 ELSE c1
        yday == r3 - 365 * n1
        year == 1 + 400 * n400 + 100 * n100 + 4 * n4 + n1
        mon  == CHOOSE m \in 1..12 :
                    /\ DaysBeforeIn(year, m) <= yday
                    /\ yday < DaysBeforeIn(year, m + 1)
    IN  [year |-> year, month |-> mon, day |-> yday - DaysBeforeIn(year, mon) + 1]

Date(year, month, day) == DaysToDate(DateToDays(year, month, day))

AddDate(t, years, mons, days) ==
    Date(t.year + years, t.month + mons, t.day + days)

Days(t) == DateToDays(t.year, t.month, t.day)

Before(t, u) == Days(t) < Days(u)

After(t, u) == Days(t) > Days(u)

\* Time.Weekday(): 0 = Sunday; 0001-01-01 is a Monday
Weekday(t) == (Days(t) + 1) % 7

\* Time.Format("2006-01-02")
FormatDate(t) ==
    ZeroPad(t.year, 4) \o <<"-">> \o ZeroPad(t.month, 2) \o <<"-">> \o ZeroPad(t.day, 2)

\* Time.Format("2006-01")
FormatMonth(t) == ZeroPad(t.year, 4) \o <<"-">> \o ZeroPad(t.month, 2)

NoTime == [year |-> 0, month |-> 0, day |-> 0]

\* time.Parse("2006-01", s): four digits, a dash, two digits naming a month
ParseMonth(s) ==
    IF /\ Len(s) = 7
       /\ AllDigits(SubSeq(s, 1, 4))
       /\ s[5] = "-"
       /\ AllDigits(SubSeq(s, 6, 7))
       /\ Atoi(SubSeq(s, 6, 7)) \in 1..12
    THEN [ok |-> TRUE, t |-> Date(Atoi(SubSeq(s, 1, 4)), Atoi(SubSeq(s, 6, 7)), 1)]
    ELSE [ok |-> FALSE, t |-> NoTime]

\* time.Parse("2006-01-02", s): the day must exist in the month
ParseDate(s) ==
    IF /\ Len(s) = 10
       /\ AllDigits(SubSeq(s, 1, 4))
       /\ s[5] = "-"
       /\ AllDigits(SubSeq(s, 6, 7))
       /\ s[8] = "-"
       /\ AllDigits(SubSeq(s, 9, 10))
       /\ Atoi(SubSeq(s, 6, 7)) \in 1..12
       /\ LET y == Atoi(SubSeq(s, 1, 4))
              m == Atoi(SubSeq(s, 6, 7))
          IN  Atoi(SubSeq(s, 9, 10)) \in 1..(DaysBeforeIn(y, m + 1) - DaysBeforeIn(y, m))
    THEN [ok |-> TRUE,
          t |-> Date(Atoi(SubSeq(s, 1, 4)), Atoi(SubSeq(s, 6, 7)), Atoi(SubSeq(s, 9, 10)))]
    ELSE [ok |-> FALSE, t |-> NoTime]

-----------------------------------------------------------------------------
(* parseArgs *)

FlagF      == <<"-", "f">>
FlagFilter == <<"-", "-", "f", "i", "l", "t", "e", "r">>
FlagC      == <<"-", "c">>
FlagCounts == <<"-", "-", "c", "o", "u", "n", "t", "s">>
FlagM      == <<"-", "m">>
FlagMonth  == <<"-", "-", "m", "o", "n", "t", "h">>

NoMonth == [set |-> FALSE, value |-> <<>>]

\* config := &Config{}
NewConfig == [ProjectPath |-> <<>>, FilterText |-> <<>>, ShowCounts |-> FALSE,
              Month |-> NoMonth]

\* a fault seeded in MonthBranch: any following argument is taken as the month
MonthBranchGreedy(a, k, cfg, now) ==
    IF k + 1 <= Len(a)
    THEN [cfg |-> [cfg EXCEPT !.Month = [set |-> TRUE, value |-> a[k + 1]]],
          next |-> k + 2]
    ELSE [cfg |-> [cfg EXCEPT !.Month = [set |-> TRUE, value |-> FormatMonth(now)]],
          next |-> k + 1]

\* the -m / --month branch: a following argument that is not a flag is the
\* month, otherwise the current month is used
MonthBranch(a, k, cfg, now) ==
    IF k + 1 <= Len(a) /\ ~HasDashPrefix(a[k + 1])
    THEN [cfg |-> [cfg EXCEPT !.Month = [set |-> TRUE, value |-> a[k + 1]]],
          next |-> k + 2]
    ELSE [cfg |-> [cfg EXCEPT !.Month = [set |-> TRUE, value |-> FormatMonth(now)]],
          next |-> k + 1]

\* a fault seeded in FinishArgs: the month is not validated
FinishArgsUnchecked(cfg) ==
    IF cfg.ProjectPath = <<>>
    THEN [err |-> "missing project path", config |-> NewConfig]
    ELSE [err |-> "none", config |-> cfg]

\* the checks after the argument loop
FinishArgs(cfg) ==
    IF cfg.ProjectPath = <<>>
    THEN [err |-> "missing project path", config |-> NewConfig]
    ELSE IF cfg.Month.set /\ ~ParseMonth(cfg.Month.value).ok
    THEN [err |-> "invalid month format", config |-> NewConfig]
    ELSE [err |-> "none", config |-> cfg]

\* the argument loop, a[k] being args[i]
RECURSIVE ArgLoop(_, _, _, _)
ArgLoop(a, k, cfg, now) ==
    IF k > Len(a) THEN FinishArgs(cfg)
    ELSE IF a[k] = FlagF \/ a[k] = FlagFilter
    THEN IF k + 1 > Len(a)
         THEN [err |-> "filter flag requires a value", config |-> NewConfig]
         ELSE ArgLoop(a, k + 2, [cfg EXCEPT !.FilterText = a[k + 1]], now)
    ELSE IF a[k] = FlagC \/ a[k] = FlagCounts
    THEN ArgLoop(a, k + 1, [cfg EXCEPT !.ShowCounts = TRUE], now)
    ELSE IF a[k] = FlagM \/ a[k] = FlagMonth
    THEN LET b == MonthBranch(a, k, cfg, now)
         IN  ArgLoop(a, b.next, b.cfg, now)
    ELSE IF HasDashPrefix(a[k])
    THEN [err |-> "unknown flag", config |-> NewConfig]
    ELSE IF cfg.ProjectPath = <<>>
    THEN ArgLoop(a, k + 1, [cfg EXCEPT !.ProjectPath = a[k]], now)
    ELSE [err |-> "unexpected argument", config |-> NewConfig]

ParseArgs(a, now) ==
    IF Len(a) = 0 THEN [err |-> "missing project path", config |-> NewConfig]
    ELSE ArgLoop(a, 1, NewConfig, now)

-----------------------------------------------------------------------------
(* parsePostsAndCount *)

EmptyCounts == [k \in {} |-> 0]

\* postCounts[key], zero for a missing key
CountAt(counts, key) == IF key \in DOMAIN counts THEN counts[key] ELSE 0

\* postCounts[key]++
Increment(counts, key) ==
    IF key \in DOMAIN counts THEN [counts EXCEPT ![key] = @ + 1]
    ELSE [k \in DOMAIN counts \cup {key} |-> IF k = key THEN 1 ELSE counts[k]]

\* a fault seeded in Skipped: the filter text is not tested for being empty
SkippedEmptyFilter(f, filterText) ==
    \/ f.draft
    \/ Contains(f.body, filterText)

\* whether the callback skips a parsed post
Skipped(f, filterText) ==
    \/ f.draft
    \/ filterText # <<>> /\ Contains(f.body, filterText)

\* the callback filepath.Walk calls for one entry, on the map so far:
\* the map after it, whether it returned an error, whether it warned
Visit(f, counts, filterText) ==
    IF f.kind = "ioerr" THEN [counts |-> counts, stop |-> TRUE, warn |-> FALSE]
    ELSE IF f.kind # "index" /\ f.kind # "bad"
    THEN [counts |-> counts, stop |-> FALSE, warn |-> FALSE]
    ELSE IF f.kind = "bad" THEN [counts |-> counts, stop |-> FALSE, warn |-> TRUE]
    ELSE IF Skipped(f, filterText)
    THEN [counts |-> counts, stop |-> FALSE, warn |-> FALSE]
    ELSE [counts |-> Increment(counts, FormatDate(f.date)), stop |-> FALSE,
          warn |-> FALSE]

-----------------------------------------------------------------------------
(* generateCalendarGrid *)

\* A cell is one element of rowParts: its visible text, the colour it is
\* printed with ("today" black on white, "activity" bright green, "neutral"
\* white, "padding" none), and the day it stands for (0 for padding).
PaddingCell == [text |-> <<" ", " ">>, style |-> "padding", day |-> 0]

\* a fault seeded in DayCell: the activity colour wins over the today colour
DayCellActivityFirst(showCounts, count, isToday, day) ==
    LET text == IF showCounts THEN (IF count > 0 THEN Sprintf2d(count) ELSE <<" ", "0">>)
                ELSE Sprintf2d(day)
    IN  IF count > 0 THEN [text |-> text, style |-> "activity", day |-> day]
        ELSE IF isToday THEN [text |-> text, style |-> "today", day |-> day]
        ELSE [text |-> text, style |-> "neutral", day |-> day]

\* the branches that build dayStr
DayCell(showCounts, count, isToday, day) ==
    IF showCounts
    THEN IF count > 0
         THEN IF isToday
              THEN [text |-> Sprintf2d(count), style |-> "today", day |-> day]
              ELSE [text |-> Sprintf2d(count), style |-> "activity", day |-> day]
         ELSE IF isToday
              THEN [text |-> <<" ", "0">>, style |-> "today", day |-> day]
              ELSE [text |-> <<" ", "0">>, style |-> "neutral", day |-> day]
    ELSE IF count > 0
         THEN IF isToday
              THEN [text |-> Sprintf2d(day), style |-> "today", day |-> day]
              ELSE [text |-> Sprintf2d(day), style |-> "activity", day |-> day]
         ELSE IF isToday
              THEN [text |-> Sprintf2d(day), style |-> "today", day |-> day]
              ELSE [text |-> Sprintf2d(day), style |-> "neutral", day |-> day]

\* a fault seeded in StartWeekday: Monday is column 0
StartWeekdayMonday(firstDay) == (Weekday(firstDay) + 6) % 7

\* startWeekday := int(firstDay.Weekday())
StartWeekday(firstDay) == Weekday(firstDay)

\* a fault seeded in DaysInMonth: a table of month lengths without leap years
DaysInMonthNoLeap(firstDay) == DaysBefore[firstDay.month + 1] - DaysBefore[firstDay.month]

\* lastDay := firstDay.AddDate(0, 1, -1); daysInMonth := lastDay.Day()
DaysInMonth(firstDay) == AddDate(firstDay, 0, 1, -1).day

\* the column loop of one week row: rowParts and the day counter after it
RECURSIVE ColumnLoop(_, _, _, _, _)
ColumnLoop(g, weekRow, col, day, rowParts) ==
    IF col >= 7 THEN [rowParts |-> rowParts, day |-> day]
    ELSE IF weekRow = 0 /\ col < g.startWeekday
    THEN ColumnLoop(g, weekRow, col + 1, day, Append(rowParts, PaddingCell))
    ELSE IF day <= g.daysInMonth
    THEN LET dateKey == FormatDate(Date(g.month.year, g.month.month, day))
             count   == CountAt(g.counts, dateKey)
             isToday == dateKey = g.currentDateKey
         IN  ColumnLoop(g, weekRow, col + 1, day + 1,
                        Append(rowParts, DayCell(g.showCounts, count, isToday, day)))
    ELSE ColumnLoop(g, weekRow, col + 1, day, Append(rowParts, PaddingCell))

\* rowString := strings.Join(rowParts, " ")
RowString(rowParts) ==
    Join([k \in 1..Len(rowParts) |-> rowParts[k].text], <<" ">>)

\* the week row loop: for day <= daysInMonth || weekRow == 0 { ... break }
RECURSIVE WeekLoop(_, _, _, _)
WeekLoop(g, weekRow, day, grid) ==
    IF day <= g.daysInMonth \/ weekRow = 0
    THEN LET r    == ColumnLoop(g, weekRow, 0, day, <<>>)
             row  == [parts |-> r.rowParts, text |-> RowString(r.rowParts)]
             next == Append(grid, row)
         IN  IF r.day > g.daysInMonth THEN next
             ELSE WeekLoop(g, weekRow + 1, r.day, next)
    ELSE grid

GenerateCalendarGrid(month, counts, showCounts, now) ==
    LET firstDay == Date(month.year, month.month, 1)
        g == [month          |-> month,
              counts         |-> counts,
              showCounts     |-> showCounts,
              startWeekday   |-> StartWeekday(firstDay),
              daysInMonth    |-> DaysInMonth(firstDay),
              currentDateKey |-> FormatDate(now)]
    IN  WeekLoop(g, 0, 1, <<>>)

-----------------------------------------------------------------------------
(* getTerminalWidth, renderCalendars, renderCalendarGrid *)

CalendarWidth == 22

FallbackWidth == 80

GetTerminalWidth(t) == IF ~t.ok THEN FallbackWidth ELSE t.col

\* a fault seeded in CalendarsPerRow: no lower limit of one calendar
CalendarsPerRowUnclamped(width) == width \div CalendarWidth

CalendarsPerRow(width) ==
    LET n == width \div CalendarWidth
    IN  IF n < 1 THEN 1 ELSE n

\* the scan for the earliest and the latest date; map iteration order is
\* arbitrary, the scan's result does not depend on it
RECURSIVE ScanMin(_, _)
ScanMin(dates, minDate) ==
    IF dates = {} THEN minDate
    ELSE LET date == CHOOSE d \in dates : TRUE
         IN  ScanMin(dates \ {date}, IF Before(date, minDate) THEN date ELSE minDate)

RECURSIVE ScanMax(_, _)
ScanMax(dates, maxDate) ==
    IF dates = {} THEN maxDate
    ELSE LET date == CHOOSE d \in dates : TRUE
         IN  ScanMax(dates \ {date}, IF After(date, maxDate) THEN date ELSE maxDate)

\* a fault seeded in MonthLoop: the month of the latest date is left out
RECURSIVE MonthLoopExclusive(_, _, _)
MonthLoopExclusive(current, end, ms) ==
    IF Before(current, end)
    THEN MonthLoopExclusive(AddDate(current, 0, 1, 0), end, Append(ms, current))
    ELSE ms

\* for !current.After(end) { months = append(months, current); current = current.AddDate(0, 1, 0) }
RECURSIVE MonthLoop(_, _, _)
MonthLoop(current, end, ms) ==
    IF ~After(current, end)
    THEN MonthLoop(AddDate(current, 0, 1, 0), end, Append(ms, current))
    ELSE ms

\* the dates of the keys that time.Parse accepts
ParsedDates(counts) ==
    {ParseDate(k).t : k \in {x \in DOMAIN counts : ParseDate(x).ok}}

\* the months of span mode, given at least one date
SpanMonths(dates) ==
    LET first   == CHOOSE d \in dates : TRUE
        minDate == ScanMin(dates, first)
        maxDate == ScanMax(dates, first)
    IN  MonthLoop(Date(minDate.year, minDate.month, 1),
                  Date(maxDate.year, maxDate.month, 1), <<>>)

\* Month.String()
MonthNames ==
    <<<<"J", "a", "n", "u", "a", "r", "y">>,
      <<"F", "e", "b", "r", "u", "a", "r", "y">>,
      <<"M", "a", "r", "c", "h">>,
      <<"A", "p", "r", "i", "l">>,
      <<"M", "a", "y">>,
      <<"J", "u", "n", "e">>,
      <<"J", "u", "l", "y">>,
      <<"A", "u", "g", "u", "s", "t">>,
      <<"S", "e", "p", "t", "e", "m", "b", "e", "r">>,
      <<"O", "c", "t", "o", "b", "e", "r">>,
      <<"N", "o", "v", "e", "m", "b", "e", "r">>,
      <<"D", "e", "c", "e", "m", "b", "e", "r">>>>

\* Time.Format("January 2006")
FormatHeader(t) == MonthNames[t.month] \o <<" ">> \o ZeroPad(t.year, 4)

\* fmt "%-20s": left justified in a field of at least twenty columns
SprintfLeft20(text) == text \o Repeat(" ", 20 - Len(text))

\* the line of month headers of a display row
RECURSIVE HeaderLine(_, _)
HeaderLine(rowMonths, j) ==
    IF j > Len(rowMonths) THEN <<>>
    ELSE (IF j > 1 THEN <<" ", " ">> ELSE <<>>)
         \o SprintfLeft20(FormatHeader(rowMonths[j]))
         \o HeaderLine(rowMonths, j + 1)

DayHeader == <<"S", "u", " ", "M", "o", " ", "T", "u", " ", "W", "e", " ", "T", "h", " ", "F", "r", " ", "S", "a">>

\* the line of day headers of a display row
RECURSIVE DayHeaderLine(_, _)
DayHeaderLine(rowMonths, j) ==
    IF j > Len(rowMonths) THEN <<>>
    ELSE (IF j > 1 THEN <<" ", " ">> ELSE <<>>) \o DayHeader
         \o DayHeaderLine(rowMonths, j + 1)

Blank20 == Repeat(" ", 20)

\* one printed body line: the row-th line of every grid of the display row
RECURSIVE BodyLine(_, _, _)
BodyLine(calendarGrids, row, idx) ==
    IF idx > Len(calendarGrids) THEN <<>>
    ELSE (IF idx > 1 THEN <<" ", " ">> ELSE <<>>)
         \o (IF row <= Len(calendarGrids[idx]) THEN calendarGrids[idx][row].text
             ELSE Blank20)
         \o BodyLine(calendarGrids, row, idx + 1)

RECURSIVE MaxRows(_, _)
MaxRows(calendarGrids, idx) ==
    IF idx > Len(calendarGrids) THEN 0
    ELSE LET rest == MaxRows(calendarGrids, idx + 1)
         IN  IF Len(calendarGrids[idx]) > rest THEN Len(calendarGrids[idx]) ELSE rest

\* one iteration of the loop over display rows: months[i:end]
DisplayRow(rowMonths, counts, showCounts, now) ==
    LET calendarGrids == [idx \in 1..Len(rowMonths) |->
                             GenerateCalendarGrid(rowMonths[idx], counts, showCounts, now)]
        maxRows == MaxRows(calendarGrids, 1)
    IN  [months    |-> rowMonths,
         header    |-> HeaderLine(rowMonths, 1),
         dayHeader |-> DayHeaderLine(rowMonths, 1),
         grids     |-> calendarGrids,
         lines     |-> [row \in 1..maxRows |-> BodyLine(calendarGrids, row, 1)]]

-----------------------------------------------------------------------------
(* main *)

MainParseArgs ==
    /\ pc = "parseArgs"
    /\ LET r == ParseArgs(args, today)
       IN  IF r.err # "none"
           THEN /\ pc' = "fatal"           \* prints the usage, os.Exit(1)
                /\ err' = r.err
                /\ UNCHANGED config
           ELSE /\ pc' = "stat"
                /\ config' = r.config
                /\ UNCHANGED err
    /\ UNCHANGED <<inputs, notice, pending, postCounts, months, calendarsPerRow, i, out>>

MainStat ==
    /\ pc = "stat"
    /\ IF ~dirExists
       THEN /\ pc' = "fatal"
            /\ err' = "posts directory not found"
            /\ UNCHANGED <<pending, postCounts>>
       ELSE /\ pc' = "walk"
            /\ pending' = files
            /\ postCounts' = EmptyCounts
            /\ UNCHANGED err
    /\ UNCHANGED <<inputs, config, notice, months, calendarsPerRow, i, out>>

\* filepath.Walk visits one more entry
WalkFile ==
    /\ pc = "walk"
    /\ \E f \in BagToSet(pending) :
          LET v == Visit(f, postCounts, config.FilterText)
          IN  /\ pending' = pending (-) SetToBag({f})
              /\ IF v.stop
                 THEN /\ pc' = "fatal"     \* "Error parsing posts", os.Exit(1)
                      /\ err' = "error parsing posts"
                      /\ UNCHANGED <<postCounts, notice>>
                 ELSE /\ postCounts' = v.counts
                      /\ notice' = IF v.warn THEN "could not parse post file" ELSE notice
                      /\ UNCHANGED <<pc, err>>
    /\ UNCHANGED <<inputs, config, months, calendarsPerRow, i, out>>

\* filepath.Walk returns nil; main looks at len(postCounts)
WalkDone ==
    /\ pc = "walk"
    /\ BagToSet(pending) = {}
    /\ IF DOMAIN postCounts = {}
       THEN /\ notice' = "no posts found"
            /\ pc' = "done"
       ELSE /\ pc' = "render"
            /\ UNCHANGED notice
    /\ UNCHANGED <<inputs, config, err, pending, postCounts, months, calendarsPerRow, i, out>>

\* the months renderCalendars hands to renderCalendarGrid, when it does
RenderMonths(monthFilter, counts) ==
    IF monthFilter.set
    THEN LET targetMonth == ParseMonth(monthFilter.value)
         IN  IF ~targetMonth.ok
             THEN [render |-> FALSE, notice |-> "error parsing month filter", months |-> <<>>]
             ELSE [render |-> TRUE, notice |-> "",
                   months |-> <<Date(targetMonth.t.year, targetMonth.t.month, 1)>>]
    ELSE LET dates == ParsedDates(counts)
         IN  IF dates = {}
             THEN [render |-> FALSE, notice |-> "", months |-> <<>>]
             ELSE [render |-> TRUE, notice |-> "", months |-> SpanMonths(dates)]

\* renderCalendars, up to the loop over display rows in renderCalendarGrid
RenderCalendars ==
    /\ pc = "render"
    /\ LET r == RenderMonths(config.Month, postCounts)
       IN  IF ~r.render
           THEN /\ pc' = "done"
                /\ notice' = IF r.notice # "" THEN r.notice ELSE notice
                /\ UNCHANGED <<months, calendarsPerRow, i>>
           ELSE /\ pc' = "layout"
                /\ months' = r.months
                /\ calendarsPerRow' = CalendarsPerRow(GetTerminalWidth(tty))
                /\ i' = 0
                /\ UNCHANGED notice
    /\ UNCHANGED <<inputs, config, err, pending, postCounts, out>>

\* one iteration of: for i := 0; i < len(months); i += calendarsPerRow
RenderRow ==
    /\ pc = "layout"
    /\ i < Len(months)
    /\ LET end == IF i + calendarsPerRow > Len(months) THEN Len(months)
                  ELSE i + calendarsPerRow
       IN  out' = Append(out, DisplayRow(SubSeq(months, i + 1, end), postCounts,
                                         config.ShowCounts, today))
    /\ i' = i + calendarsPerRow
    /\ UNCHANGED <<inputs, pc, config, err, notice, pending, postCounts, months,
                   calendarsPerRow>>

\* the loop over display rows ends and main returns
RenderDone ==
    /\ pc = "layout"
    /\ i >= Len(months)
    /\ pc' = "done"
    /\ UNCHANGED <<inputs, config, err, notice, pending, postCounts, months,
                   calendarsPerRow, i, out>>

Next ==
    \/ MainParseArgs
    \/ MainStat
    \/ WalkFile
    \/ WalkDone
    \/ RenderCalendars
    \/ RenderRow
    \/ RenderDone

-----------------------------------------------------------------------------
(* The runs checked: the inputs of a run are chosen in the initial state. *)

\* the state main starts in, for inputs drawn from the given sets
Start(argSet, fileSet, dirSet, ttySet, todaySet) ==
    /\ args \in argSet
    /\ files \in fileSet
    /\ dirExists \in dirSet
    /\ tty \in ttySet
    /\ today \in todaySet
    /\ pc = "parseArgs"
    /\ config = NewConfig
    /\ err = "none"
    /\ notice = ""
    /\ pending = EmptyBag
    /\ postCounts = EmptyCounts
    /\ months = <<>>
    /\ calendarsPerRow = 0
    /\ i = 0
    /\ out = <<>>

SeqsUpTo(S, n) == UNION {[1..k -> S] : k \in 0..n}

BagsUpTo(S, n) == {SetToBag({}) } \cup
    UNION {{b \in [T -> 1..n] : BagCardinality(b) <= n} : T \in SUBSET S \ {{}}}

Text(year, month) == FormatMonth(Date(year, month, 1))

ProjectArg == <<"b", "l", "o", "g">>

BadMonthArg == <<"2", "0", "2", "4", "-", "1", "3">>

UnknownFlag == <<"-", "x">>

Post(date, hour, draft, body) ==
    [kind |-> "index", date |-> date, hour |-> hour, draft |-> draft, body |-> body]

\* an index.md that parsePostFile cannot parse
BadPost == [kind |-> "bad", date |-> NoTime, hour |-> 0, draft |-> FALSE, body |-> <<>>]

\* an entry that is not named index.md
OtherEntry == [kind |-> "other", date |-> NoTime, hour |-> 0, draft |-> FALSE, body |-> <<>>]

\* an entry filepath.Walk cannot read
UnreadableEntry == [kind |-> "ioerr", date |-> NoTime, hour |-> 0, draft |-> FALSE, body |-> <<>>]

NoTty == [ok |-> FALSE, col |-> 0]

CurrentDay == Date(2024, 3, 15)

MaxArgs == 4

Tokens == {FlagM, FlagMonth, FlagC, FlagF, ProjectArg, Text(2024, 2), BadMonthArg,
           UnknownFlag}

FebruaryPost == Post(Date(2024, 2, 10), 9, FALSE, <<"a">>)

TodayPost == Post(CurrentDay, 9, FALSE, <<"a">>)

DraftPost == Post(Date(2024, 2, 10), 9, TRUE, <<"a">>)

\* any command line over a project with posts; and the usual command lines
\* over a project with no post, only a draft, an unreadable entry, or no
\* posts directory
Init ==
    \/ Start(SeqsUpTo(Tokens, MaxArgs), {SetToBag({FebruaryPost, TodayPost})},
             {TRUE}, {NoTty}, {CurrentDay})
    \/ Start({<<ProjectArg>>, <<ProjectArg, FlagM>>, <<ProjectArg, FlagM, Text(2024, 2)>>,
              <<ProjectArg, FlagC, FlagM, Text(2024, 2)>>, <<ProjectArg, FlagM, BadMonthArg>>,
              <<FlagM, ProjectArg>>},
             {EmptyBag, SetToBag({DraftPost}), SetToBag({FebruaryPost}),
              SetToBag({FebruaryPost, UnreadableEntry})},
             BOOLEAN, {NoTty}, {CurrentDay})

Spec == Init /\ [][Next]_vars

-----------------------------------------------------------------------------
(* Claims about a run as a whole *)

AllCells(displayRows) ==
    {displayRows[r].grids[g][w].parts[c] :
        <<r, g, w, c>> \in {q \in (DOMAIN displayRows) \X (1..12) \X (1..6) \X (1..7) :
            /\ q[2] \in DOMAIN displayRows[q[1]].grids
            /\ q[3] \in DOMAIN displayRows[q[1]].grids[q[2]]
            /\ q[4] \in DOMAIN displayRows[q[1]].grids[q[2]][q[3]].parts}}

\* C7: with an explicit month and no eligible document, a finished run has
\* rendered exactly that month, every day cell neutral or today.
C7_ExplicitMonthOverEmptyIndexRenders ==
    (/\ pc = "done"
     /\ args = <<ProjectArg, FlagM, Text(2024, 2)>>
     /\ dirExists
     /\ DOMAIN postCounts = {})
    => /\ Len(out) = 1
       /\ out[1].months = <<Date(2024, 2, 1)>>
       /\ \A cell \in AllCells(out) : cell.style \in {"neutral", "today", "padding"}

\* the errors parseArgs returns
ArgErrors == {"invalid month format", "missing project path", "unknown flag",
              "unexpected argument", "filter flag requires a value"}

\* the month value the command line names is not a calendar month: its last
\* -m or --month is in flag position and directly followed by BadMonthArg
NamesBadMonth(a) ==
    \E k \in 1..(Len(a) - 1) :
        /\ a[k] \in {FlagM, FlagMonth}
        /\ a[k + 1] = BadMonthArg
        /\ \A j \in 1..(k - 1) : a[j] # FlagF
        /\ \A j \in (k + 1)..Len(a) : a[j] \notin {FlagM, FlagMonth}

\* C8: a run that ends in a fatal error has printed no display row; a command
\* line naming an invalid month never gets past parseArgs, and the run that
\* rejects it has scanned nothing.
C8_FatalBeforeAnyOutput ==
    /\ pc = "fatal" => out = <<>>
    /\ NamesBadMonth(args) => pc \in {"parseArgs", "fatal"}
    /\ err \in ArgErrors \cup {"posts directory not found"}
       => pc = "fatal" /\ BagToSet(pending) = {} /\ postCounts = EmptyCounts /\ notice = ""

C8_Witness ==
    /\ pc = "fatal"
    /\ err = "invalid month format"
    /\ args = <<ProjectArg, FlagM, BadMonthArg>>

\* the kinds of the arguments when -m never takes a value: "m", "c",
\* "f" (a filter flag with its value), "p" (the project path), "?" (other)
RECURSIVE Kinds(_)
Kinds(a) ==
    IF a = <<>> THEN <<>>
    ELSE IF a[1] \in {FlagM, FlagMonth} THEN <<"m">> \o Kinds(Tail(a))
    ELSE IF a[1] \in {FlagC, FlagCounts} THEN <<"c">> \o Kinds(Tail(a))
    ELSE IF a[1] \in {FlagF, FlagFilter} /\ Len(a) >= 2 THEN <<"f">> \o Kinds(Tail(Tail(a)))
    ELSE IF a[1] = ProjectArg THEN <<"p">> \o Kinds(Tail(a))
    ELSE <<"?">>

Occurrences(ks, kind) == Cardinality({k \in 1..Len(ks) : ks[k] = kind})

\* a month flag without value, one project path, and otherwise only -c and -f
MonthFlagWithoutValue(a) ==
    /\ Occurrences(Kinds(a), "?") = 0
    /\ Occurrences(Kinds(a), "p") = 1
    /\ Occurrences(Kinds(a), "m") >= 1

PathAfterMonthFlag(a) ==
    \E k \in 1..(Len(Kinds(a)) - 1) : Kinds(a)[k] = "m" /\ Kinds(a)[k + 1] = "p"

CurrentMonthText == <<"2", "0", "2", "4", "-", "0", "3">>

\* parseArgs returned the configuration the arguments describe
Accepted ==
    /\ err \notin ArgErrors
    /\ config.ProjectPath = ProjectArg
    /\ config.Month = [set |-> TRUE, value |-> CurrentMonthText]
    /\ config.ShowCounts = (Occurrences(Kinds(args), "c") >= 1)
    /\ (config.FilterText # <<>>) = (Occurrences(Kinds(args), "f") >= 1)

\* C10, as claimed: whenever -m comes without a YYYY-MM value, parseArgs sets
\* the current month and accepts the other arguments wherever they are, a
\* project path directly after -m included.
C10_AsClaimed ==
    (pc # "parseArgs" /\ MonthFlagWithoutValue(args)) => Accepted

\* C10, amended: when -m is the last argument or is followed by an argument
\* that starts with "-", parseArgs sets the current month and accepts the
\* other arguments wherever they are; a project path directly after -m is
\* taken as the month value, and the run ends with "missing project path".
C10_MonthFlagWithoutValue ==
    (pc # "parseArgs" /\ MonthFlagWithoutValue(args))
    => IF PathAfterMonthFlag(args)
       THEN pc = "fatal" /\ err = "missing project path"
       ELSE Accepted

C10_Witness ==
    /\ args = <<FlagM, FlagC, ProjectArg>>
    /\ pc = "stat"
    /\ config.Month.value = CurrentMonthText

-----------------------------------------------------------------------------
(* Claims about one month's grid *)

NumYears == 4

GridYears == {1900, 2000, 2004} \cup (2023..(2022 + NumYears))

\* one explicit month of GridYears, in day-number and in count mode, with
\* posts in and outside the month, today in and outside the month
InitGrid ==
    \E y \in GridYears, m \in 1..12 :
        Start({<<ProjectArg, FlagM, Text(y, m)>>, <<ProjectArg, FlagC, FlagM, Text(y, m)>>},
              {SetToBag({Post(Date(y, m, 1), 0, FALSE, <<>>)}),
               SetToBag({Post(Date(y, m, 15), 0, FALSE, <<>>), Post(Date(y, m, 15), 7, FALSE, <<>>),
                         Post(Date(y, m, 28), 0, FALSE, <<>>)}),
               SetToBag({Post(Date(y, m + 1, 3), 0, FALSE, <<>>)})},
              {TRUE}, {NoTty},
              {Date(y, m, 15), Date(y, m, 1), Date(y, m + 1, 1)})

SpecGrid == InitGrid /\ [][Next]_vars

\* the printed grids, each with its month
PrintedGrids ==
    {[month |-> out[r].months[k], grid |-> out[r].grids[k]] :
        <<r, k>> \in {q \in (DOMAIN out) \X (1..12) : q[2] \in DOMAIN out[q[1]].months}}

\* the Gregorian length of a month
GregorianDays(year, month) ==
    CASE month \in {1, 3, 5, 7, 8, 10, 12} -> 31
      [] month \in {4, 6, 9, 11} -> 30
      [] OTHER -> IF (year % 4 = 0 /\ year % 100 # 0) \/ year % 400 = 0 THEN 29 ELSE 28

\* the weekday of the first of a month, 0 = Sunday (Sakamoto's method)
FirstWeekday(year, month) ==
    LET t == <<0, 3, 2, 5, 0, 3, 5, 1, 4, 6, 2, 4>>
        y == IF month < 3 THEN year - 1 ELSE year
    IN  (y + (y \div 4) - (y \div 100) + (y \div 400) + t[month] + 1) % 7

CeilDiv(a, b) == (a + b - 1) \div b

\* C1: every printed grid has ceil((s + D) / 7) rows of exactly 7 cells, s the
\* weekday of day 1 and D the Gregorian length of the month, and D day cells;
\* never zero rows.
C1_RowCount ==
    \A pg \in PrintedGrids :
        /\ Len(pg.grid) = CeilDiv(FirstWeekday(pg.month.year, pg.month.month)
                                  + GregorianDays(pg.month.year, pg.month.month), 7)
        /\ Len(pg.grid) >= 1
        /\ \A w \in DOMAIN pg.grid : Len(pg.grid[w].parts) = 7
        /\ Cardinality({<<w, c>> \in (DOMAIN pg.grid) \X (1..7) : pg.grid[w].parts[c].day > 0})
               = GregorianDays(pg.month.year, pg.month.month)

\* February 2024 is printed with 29 day cells in 5 rows
C1_Witness ==
    \E pg \in PrintedGrids :
        /\ pg.month = Date(2024, 2, 1)
        /\ Len(pg.grid) = 5
        /\ Cardinality({<<w, c>> \in (1..5) \X (1..7) : pg.grid[w].parts[c].day > 0}) = 29

\* C2: day d of 1..D is in row (s + d - 1) div 7, column (s + d - 1) mod 7,
\* and nowhere else; every other cell is padding, so padding is found only
\* before day 1 in row 0 and after day D in the last row.
C2_DayPositions ==
    \A pg \in PrintedGrids :
        LET s == FirstWeekday(pg.month.year, pg.month.month)
            D == GregorianDays(pg.month.year, pg.month.month)
        IN  /\ \A d \in 1..D :
                  /\ ((s + d - 1) \div 7) + 1 \in DOMAIN pg.grid
                  /\ pg.grid[((s + d - 1) \div 7) + 1].parts[((s + d - 1) % 7) + 1].day = d
            /\ \A w \in DOMAIN pg.grid : \A c \in DOMAIN pg.grid[w].parts :
                  LET cell == pg.grid[w].parts[c]
                      d    == 7 * (w - 1) + (c - 1) - s + 1
                  IN  IF d \in 1..D
                      THEN cell.day = d /\ cell.style # "padding"
                      ELSE /\ cell.day = 0 /\ cell.style = "padding"
                           /\ (w = 1 /\ c - 1 < s) \/ (w = Len(pg.grid) /\ d > D)

\* a month that starts on a Saturday: day 1 alone in row 0, column 6
C2_Witness ==
    \E pg \in PrintedGrids :
        /\ pg.grid[1].parts[7].day = 1
        /\ pg.grid[1].parts[6].style = "padding"
        /\ Len(pg.grid) = 6
        /\ pg.grid[6].parts[1].day = 30

\* C6: a day cell has the today presentation iff its date is the current
\* date; otherwise the activity presentation iff its count is positive;
\* otherwise the neutral one.  Both display modes, every count.
C6_StylePrecedence ==
    \A pg \in PrintedGrids : \A w \in DOMAIN pg.grid : \A c \in DOMAIN pg.grid[w].parts :
        LET cell    == pg.grid[w].parts[c]
            date    == [year |-> pg.month.year, month |-> pg.month.month, day |-> cell.day]
            count   == CountAt(postCounts, FormatDate(date))
        IN  cell.day > 0 =>
                cell.style = IF date = today THEN "today"
                             ELSE IF count > 0 THEN "activity"
                             ELSE "neutral"

\* in count mode, today's cell has posts and is printed as today
C6_Witness ==
    /\ config.ShowCounts
    /\ \E pg \in PrintedGrids : \E w \in DOMAIN pg.grid : \E c \in DOMAIN pg.grid[w].parts :
          /\ pg.grid[w].parts[c].day = today.day
          /\ pg.month.month = today.month
          /\ CountAt(postCounts, FormatDate(today)) = 2
          /\ pg.grid[w].parts[c].style = "today"

-----------------------------------------------------------------------------
(* Claims about the month range of span mode *)

NumSpanMonths == 6

SpanDates == {Date(2023, 10 + k, d) : k \in 0..(NumSpanMonths - 1), d \in {3, 20}}

\* no month argument; one or two posts on dates from October 2023 onwards
InitSpan ==
    Start({<<ProjectArg>>},
          {SetToBag({Post(d1, 0, FALSE, <<>>), Post(d2, 0, FALSE, <<>>)}) :
              <<d1, d2>> \in SpanDates \X SpanDates},
          {TRUE}, {NoTty, [ok |-> TRUE, col |-> 30]}, {CurrentDay})

SpecSpan == InitSpan /\ [][Next]_vars

\* months numbered from year 0
MonthIndex(t) == 12 * t.year + (t.month - 1)

IndexedDates == {f.date : f \in {x \in BagToSet(files) : x.kind = "index" /\ ~x.draft}}

\* C3: in span mode the months run from the month of the earliest date to the
\* month of the latest date, one calendar month per step, months without a
\* date included.
C3_SpanMonths ==
    (pc \in {"layout", "done"} /\ ~config.Month.set /\ DOMAIN postCounts # {})
    => LET lo == CHOOSE a \in {MonthIndex(d) : d \in IndexedDates} :
                     \A d \in IndexedDates : a <= MonthIndex(d)
           hi == CHOOSE b \in {MonthIndex(d) : d \in IndexedDates} :
                     \A d \in IndexedDates : b >= MonthIndex(d)
       IN  /\ Len(months) = hi - lo + 1
           /\ \A k \in 1..Len(months) :
                  months[k] = [year  |-> (lo + k - 1) \div 12,
                               month |-> ((lo + k - 1) % 12) + 1,
                               day   |-> 1]

\* November 2023 to January 2024: across the year boundary, December empty
C3_Witness ==
    /\ pc = "done"
    /\ IndexedDates = {Date(2023, 11, 20), Date(2024, 1, 3)}
    /\ months = <<Date(2023, 11, 1), Date(2023, 12, 1), Date(2024, 1, 1)>>

-----------------------------------------------------------------------------
(* Claims about the counts *)

MaxFiles == 3

Records == {Post(Date(2024, 1, 5), 0, FALSE, <<"a", "b">>),
            Post(Date(2024, 1, 5), 23, FALSE, <<"a">>),
            Post(Date(2024, 1, 5), 0, TRUE, <<"a">>),
            Post(Date(2024, 1, 6), 12, FALSE, <<"b", "a">>),
            BadPost,
            OtherEntry}

\* up to MaxFiles entries, copies included, without and with a filter text
InitCount ==
    Start({<<ProjectArg>>, <<ProjectArg, FlagF, <<>>>>, <<ProjectArg, FlagF, <<"b">>>>,
           <<ProjectArg, FlagF, <<"a", "b">>>>},
          BagsUpTo(Records, MaxFiles), {TRUE}, {NoTty}, {CurrentDay})

SpecCount == InitCount /\ [][Next]_vars

Key5 == <<"2", "0", "2", "4", "-", "0", "1", "-", "0", "5">>

Key6 == <<"2", "0", "2", "4", "-", "0", "1", "-", "0", "6">>

\* the filter text the command line gives
GivenFilter == IF Len(args) = 3 THEN args[3] ELSE <<>>

\* sub occurs in s
Occurs(sub, s) == \E a \in 0..Len(s), b \in 0..Len(s) : a <= b /\ SubSeq(s, a + 1, b) = sub

Eligible(f) ==
    /\ f.kind = "index"
    /\ ~f.draft
    /\ GivenFilter = <<>> \/ ~Occurs(GivenFilter, f.body)

\* the eligible entries of a bag with the given date, copies counted
Expected(bag, date) ==
    LET S == {f \in BagToSet(bag) : Eligible(f) /\ f.date = date}
    IN  IF S = {} THEN 0 ELSE BagCardinality([f \in S |-> bag[f]])

\* C4: whatever the order of the visits, the count at each date is the number
\* of visited entries with that date that parsed, are no drafts and do not
\* hold a non-empty filter text; an unparseable entry is warned about and
\* changes nothing else; with an empty filter no entry is skipped for its body.
C4_Counts ==
    pc \in {"walk", "render", "layout", "done"}
    => LET visited == files (-) pending
       IN  /\ DOMAIN postCounts \subseteq {Key5, Key6}
           /\ CountAt(postCounts, Key5) = Expected(visited, Date(2024, 1, 5))
           /\ CountAt(postCounts, Key6) = Expected(visited, Date(2024, 1, 6))
           /\ pc = "walk" => ((notice = "could not parse post file") = BagIn(BadPost, visited))
           /\ pc # "walk" => BagToSet(pending) = {}

\* two posts of one day counted, after a draft or an unparseable entry
C4_Witness ==
    /\ pc = "done"
    /\ CountAt(postCounts, Key5) = 2
    /\ BagIn(BadPost, files)
    /\ GivenFilter = <<>>

-----------------------------------------------------------------------------
(* Claims about the display rows *)

MaxWidth == 140

MaxSpan == 5

\* one to MaxSpan + 1 months, every terminal width up to MaxWidth and no terminal
InitLayout ==
    \E k \in 0..MaxSpan :
        Start({<<ProjectArg>>},
              {SetToBag({Post(Date(2023, 11, 20), 0, FALSE, <<>>),
                         Post(Date(2023, 11 + k, 3), 0, FALSE, <<>>)})},
              {TRUE}, {NoTty} \cup {[ok |-> TRUE, col |-> w] : w \in 0..MaxWidth},
              {CurrentDay})

SpecLayout == InitLayout /\ [][Next]_vars

RECURSIVE Emitted(_)
Emitted(displayRows) ==
    IF displayRows = <<>> THEN <<>>
    ELSE displayRows[1].months \o Emitted(Tail(displayRows))

\* C5: with K = max(1, floor(w / 22)) for the available width w, the months
\* are emitted in order, each once; every display row but the last holds K
\* months, the last holds 1 to K; below 44 columns each row holds one.
C5_RowPacking ==
    pc \in {"layout", "done"}
    => LET w == IF tty.ok THEN tty.col ELSE 80
           K == IF w \div 22 >= 1 THEN w \div 22 ELSE 1
       IN  /\ calendarsPerRow = K
           /\ Emitted(out) = SubSeq(months, 1, IF i < Len(months) THEN i ELSE Len(months))
           /\ \A r \in 1..(Len(out) - 1) : Len(out[r].months) = K
           /\ \A r \in 1..Len(out) : Len(out[r].months) \in 1..K
           /\ pc = "done" => Emitted(out) = months
           /\ w < 44 => \A r \in 1..Len(out) : Len(out[r].months) = 1

\* 30 columns: five months in five display rows
C5_Witness ==
    /\ pc = "done"
    /\ tty = [ok |-> TRUE, col |-> 30]
    /\ Len(months) = 5
    /\ Len(out) = 5

-----------------------------------------------------------------------------
(* Claims about the printed widths *)

MaxPosts == 100

\* MaxPosts - 1 or MaxPosts posts on one day, in day-number and in count mode
InitCrowd ==
    \E n \in (MaxPosts - 1)..MaxPosts :
        Start({<<ProjectArg>>, <<ProjectArg, FlagC>>},
              {[f \in {Post(Date(2024, 2, 10), 0, FALSE, <<>>)} |-> n]},
              {TRUE}, {NoTty}, {CurrentDay})

SpecCrowd == InitCrowd /\ [][Next]_vars

\* C9: every cell prints 2 characters, every grid line 20, and every body
\* line of a display row of n grids 22n - 2, in both modes, whatever the count.
C9_FixedWidths ==
    /\ \A cell \in AllCells(out) : Len(cell.text) = 2
    /\ \A pg \in PrintedGrids : \A w \in DOMAIN pg.grid : Len(pg.grid[w].text) = Len(Blank20)
    /\ \A r \in DOMAIN out : \A l \in DOMAIN out[r].lines :
          Len(out[r].lines[l]) = 22 * Len(out[r].months) - 2

=============================================================================
